---- MODULE Spec2Model ----
(***************************************************************************)
(* A model of src/util.rs of kmon: exec_cmd (run an operating system       *)
(* command and return its output) and parse_args (the clap argument        *)
(* specification).                                                         *)
(*                                                                         *)
(* Bytes are integers 0..255, text is a sequence of Unicode scalar values. *)
(* The operating system is the environment: it decides whether a spawn     *)
(* succeeds, what the process writes to its two pipes and how it exits.    *)
(***************************************************************************)
EXTENDS Integers, Sequences, FiniteSets, TLC

\* ------------------------------------------------------------------ bounds
\* The most bytes a process writes to its two pipes together.
MaxBytes == 3
\* The same, in the specification that compares two calls.
RepMaxBytes == 1

\* The bytes a process may write: '\n', ' ', 'a', and 0xC2, 0xA0, which are
\* U+00A0 (a white space character) as a pair and invalid UTF-8 alone.
Bytes == {10, 32, 97, 194, 160}

\* The calls the caller makes (cmd, cmd_args), after tests::test_exec_cmd.
Calls == {<<"printf", <<"test">>>>, <<"cat", <<"-x">>>>, <<"nosuch", <<>>>>}

\* Exit codes and terminating signals of a process.
ExitCodes == {0, 1}
Signals == {9}
Statuses == {[signal |-> 0, code |-> c] : c \in ExitCodes}
              \cup {[signal |-> s, code |-> 0] : s \in Signals}

\* errno values of a spawn that fails: ENOENT, EACCES.
Errnos == {2, 13}

VARIABLES
    pc,        \* where exec_cmd is: "idle", "spawn", "wait", "match", "returned", "panicked"
    cmd,       \* exec_cmd's parameter cmd
    cmd_args,  \* exec_cmd's parameter cmd_args
    proc,      \* the child process: its state, what it wrote to its pipes, its exit status
    out_res,   \* the value of Command::output(): Ok(Output) or Err(io::Error)
    result,    \* the Result<String, String> exec_cmd returned
    attempts,  \* spawns attempted by the current call
    started,   \* processes started by the current call
    ref,       \* an earlier call, remembered to compare a later one against
    cli        \* parse_args: the argument vector, clap's parser and its ArgMatches

vars == <<pc, cmd, cmd_args, proc, out_res, result, attempts, started, ref, cli>>
execVars == <<pc, cmd, cmd_args, proc, out_res, result, attempts, started, ref>>

\* ------------------------------------------------------------ pure parts

\* ExitStatus::success: the process exited by itself with code 0.
success(status) == status.signal = 0 /\ status.code = 0

\* char::is_whitespace: the Unicode White_Space property.
is_whitespace(c) ==
    \/ c \in 9..13
    \/ c \in {32, 133, 160, 5760, 8232, 8233, 8239, 8287, 12288}
    \/ c \in 8192..8202

\* The length in bytes of the UTF-8 sequence a first byte opens; 0: none.
utf8_char_width(b) ==
    IF b < 128 THEN 1
    ELSE IF b \in 194..223 THEN 2
    ELSE IF b \in 224..239 THEN 3
    ELSE IF b \in 240..244 THEN 4
    ELSE 0

\* The bytes after the first one are continuation bytes in the ranges that
\* exclude overlong forms, surrogates and values above U+10FFFF.
utf8_tail_ok(v, i, w) ==
    /\ i + w - 1 <= Len(v)
    /\ \A k \in 1..(w - 1) : v[i + k] \in 128..191
    /\ (w = 3 /\ v[i] = 224) => v[i + 1] >= 160
    /\ (w = 3 /\ v[i] = 237) => v[i + 1] <= 159
    /\ (w = 4 /\ v[i] = 240) => v[i + 1] >= 144
    /\ (w = 4 /\ v[i] = 244) => v[i + 1] <= 143

\* The scalar value of the w-byte sequence at v[i].
utf8_scalar(v, i, w) ==
    IF w = 1 THEN v[i]
    ELSE IF w = 2 THEN (v[i] - 192) * 64 + (v[i + 1] - 128)
    ELSE IF w = 3 THEN (v[i] - 224) * 4096 + (v[i + 1] - 128) * 64 + (v[i + 2] - 128)
    ELSE (v[i] - 240) * 262144 + (v[i + 1] - 128) * 4096
             + (v[i + 2] - 128) * 64 + (v[i + 3] - 128)

RECURSIVE utf8_from(_, _)
utf8_from(v, i) ==
    IF i > Len(v) THEN [ok |-> TRUE, chars |-> <<>>]
    ELSE LET w == utf8_char_width(v[i]) IN
         IF w = 0 \/ ~utf8_tail_ok(v, i, w) THEN [ok |-> FALSE, chars |-> <<>>]
         ELSE LET rest == utf8_from(v, i + w) IN
              IF rest.ok
              THEN [ok |-> TRUE, chars |-> <<utf8_scalar(v, i, w)>> \o rest.chars]
              ELSE rest

\* String::from_utf8_lossy in place of from_utf8 (a mutant of from_utf8):
\* U+FFFD stands for every byte that belongs to no well-formed sequence.
RECURSIVE utf8_lossy_from(_, _)
utf8_lossy_from(v, i) ==
    IF i > Len(v) THEN <<>>
    ELSE LET w == utf8_char_width(v[i]) IN
         IF w = 0 \/ ~utf8_tail_ok(v, i, w) THEN <<65533>> \o utf8_lossy_from(v, i + 1)
         ELSE <<utf8_scalar(v, i, w)>> \o utf8_lossy_from(v, i + w)

from_utf8_lossy(v) == [ok |-> TRUE, chars |-> utf8_lossy_from(v, 1)]

\* String::from_utf8: Ok(the text) when every byte belongs to a well-formed
\* sequence, Err otherwise; nothing is replaced or dropped.
from_utf8(v) == utf8_from(v, 1)

\* trim_end_matches('\n') in place of trim_end (a mutant of trim_end).
RECURSIVE trim_end_newlines(_)
trim_end_newlines(s) ==
    IF s = <<>> THEN s
    ELSE IF s[Len(s)] = 10 THEN trim_end_newlines(SubSeq(s, 1, Len(s) - 1))
    ELSE s

\* str::trim_end: the text without its trailing white space.
RECURSIVE trim_end(_)
trim_end(s) ==
    IF s = <<>> THEN s
    ELSE IF is_whitespace(s[Len(s)]) THEN trim_end(SubSeq(s, 1, Len(s) - 1))
    ELSE s

\* The decimal digits of a natural number, as text.
RECURSIVE digits(_)
digits(n) == IF n < 10 THEN <<48 + n>> ELSE digits(n \div 10) \o <<48 + (n % 10)>>

\* strerror of the errnos of Errnos.
sys_error_string(errno) ==
    IF errno = 2
    THEN <<78, 111, 32, 115, 117, 99, 104, 32, 102, 105, 108, 101, 32, 111, 114,
           32, 100, 105, 114, 101, 99, 116, 111, 114, 121>>   \* No such file or directory
    ELSE <<80, 101, 114, 109, 105, 115, 115, 105, 111, 110, 32, 100, 101, 110,
           105, 101, 100>>                                    \* Permission denied

\* io::Error's to_string for an OS error: "<strerror> (os error <errno>)".
to_string(errno) ==
    sys_error_string(errno)
        \o <<32, 40, 111, 115, 32, 101, 114, 114, 111, 114, 32>> \o digits(errno) \o <<41>>

NoResult == [kind |-> "None", text |-> <<>>]
NoStatus == [signal |-> 0, code |-> 0]
NoOutput == [kind |-> "None", status |-> NoStatus, stdout |-> <<>>, stderr |-> <<>>, errno |-> 0]
NoProc == [state |-> "none", out |-> <<>>, err |-> <<>>, status |-> NoStatus]
NoRef == [set |-> FALSE, cmd |-> "", cmd_args |-> <<>>, launched |-> FALSE,
          out |-> <<>>, err |-> <<>>, status |-> NoStatus, errno |-> 0, result |-> NoResult]

\* str::trim_start: the text without its leading white space.
RECURSIVE trim_start(_)
trim_start(s) ==
    IF s = <<>> THEN s
    ELSE IF is_whitespace(s[1]) THEN trim_start(Tail(s))
    ELSE s

\* trim in place of trim_end (a mutant of decoded).
decoded_trim(kind, stream) ==
    LET d == from_utf8(stream) IN
    IF d.ok THEN [kind |-> kind, text |-> trim_start(trim_end(d.chars))]
    ELSE [kind |-> "Panic", text |-> <<>>]

\* unwrap_or_default in place of expect (a mutant of decoded).
decoded_or_default(kind, stream) ==
    LET d == from_utf8(stream) IN
    IF d.ok THEN [kind |-> kind, text |-> trim_end(d.chars)]
    ELSE [kind |-> kind, text |-> <<>>]

\* One arm of exec_cmd's match: the text of a stream, decoded strictly and
\* trimmed at the end, under the given variant; a panic when it is not UTF-8.
decoded(kind, stream) ==
    LET d == from_utf8(stream) IN
    IF d.ok THEN [kind |-> kind, text |-> trim_end(d.chars)]
    ELSE [kind |-> "Panic", text |-> <<>>]

\* The failure arm reads output.stdout (a mutant of exec_cmd_match).
exec_cmd_match_stdout(o) ==
    IF o.kind = "Ok"
    THEN IF success(o.status) THEN decoded("Ok", o.stdout) ELSE decoded("Err", o.stdout)
    ELSE [kind |-> "Err", text |-> to_string(o.errno)]

\* Command::output() is unwrapped (a mutant of exec_cmd_match).
exec_cmd_match_unwrap(o) ==
    IF o.kind = "Ok"
    THEN IF success(o.status) THEN decoded("Ok", o.stdout) ELSE decoded("Err", o.stderr)
    ELSE [kind |-> "Panic", text |-> <<>>]

\* The match of exec_cmd over the value of Command::output().
exec_cmd_match(o) ==
    IF o.kind = "Ok"
    THEN IF success(o.status) THEN decoded("Ok", o.stdout) ELSE decoded("Err", o.stderr)
    ELSE [kind |-> "Err", text |-> to_string(o.errno)]

\* ---------------------------------------------------------------- state

\* A MatchedArg that is not in ArgMatches.args, and the parser before it runs.
NoArg == [present |-> FALSE, occurs |-> 0, vals |-> <<>>]
NoCli == [pc |-> "off", argv |-> <<>>, pos |-> 1, needs_val_of |-> "",
          args |-> [n \in {"color", "rate", "reverse"} |-> NoArg],
          sub |-> FALSE, sub_args |-> [n \in {"size", "name"} |-> NoArg]]

ExecInit ==
    /\ pc = "idle"
    /\ cmd = ""
    /\ cmd_args = <<>>
    /\ proc = NoProc
    /\ out_res = NoOutput
    /\ result = NoResult
    /\ attempts = 0
    /\ started = 0
    /\ ref = NoRef

Init == ExecInit /\ cli = NoCli

\* A call that finds the buffers of the call before it (a mutant of Call).
CallKeepingBuffers ==
    /\ pc \in {"idle", "returned"}
    /\ \E c \in Calls : cmd' = c[1] /\ cmd_args' = c[2]
    /\ pc' = "spawn"
    /\ proc' = NoProc
    /\ result' = NoResult
    /\ attempts' = 0
    /\ started' = 0
    /\ UNCHANGED <<out_res, ref, cli>>

\* The caller calls exec_cmd(cmd, cmd_args): the call owns a new process
\* handle and new, empty buffers; nothing of an earlier call is left.
Call ==
    /\ pc \in {"idle", "returned"}
    /\ \E c \in Calls : cmd' = c[1] /\ cmd_args' = c[2]
    /\ pc' = "spawn"
    /\ proc' = NoProc
    /\ out_res' = NoOutput
    /\ result' = NoResult
    /\ attempts' = 0
    /\ started' = 0
    /\ UNCHANGED <<ref, cli>>

\* Command::output() spawns and the operating system refuses: Err(e).
SpawnFail ==
    /\ pc = "spawn"
    /\ \E e \in Errnos : out_res' = [NoOutput EXCEPT !.kind = "Err", !.errno = e]
    /\ attempts' = attempts + 1
    /\ pc' = "match"
    /\ UNCHANGED <<cmd, cmd_args, proc, result, started, ref, cli>>

\* Command::output() spawns and the process starts, its pipes empty.
SpawnOk ==
    /\ pc = "spawn"
    /\ attempts' = attempts + 1
    /\ started' = started + 1
    /\ proc' = [NoProc EXCEPT !.state = "running"]
    /\ pc' = "wait"
    /\ UNCHANGED <<cmd, cmd_args, out_res, result, ref, cli>>

\* The running process writes one byte to its standard output.
WriteStdout(limit) ==
    /\ proc.state = "running"
    /\ Len(proc.out) + Len(proc.err) < limit
    /\ \E b \in Bytes : proc' = [proc EXCEPT !.out = Append(@, b)]
    /\ UNCHANGED <<pc, cmd, cmd_args, out_res, result, attempts, started, ref, cli>>

\* The running process writes one byte to its standard error.
WriteStderr(limit) ==
    /\ proc.state = "running"
    /\ Len(proc.out) + Len(proc.err) < limit
    /\ \E b \in Bytes : proc' = [proc EXCEPT !.err = Append(@, b)]
    /\ UNCHANGED <<pc, cmd, cmd_args, out_res, result, attempts, started, ref, cli>>

\* The running process exits, or a signal ends it.
Exit ==
    /\ proc.state = "running"
    /\ \E s \in Statuses : proc' = [proc EXCEPT !.state = "exited", !.status = s]
    /\ UNCHANGED <<pc, cmd, cmd_args, out_res, result, attempts, started, ref, cli>>

\* The process is waited for before its pipes are read, which only ends
\* when it wrote nothing (a mutant of WaitWithOutput).
WaitBeforeReading ==
    /\ pc = "wait"
    /\ proc.state = "exited"
    /\ proc.out = <<>> /\ proc.err = <<>>
    /\ out_res' = [out_res EXCEPT !.kind = "Ok", !.status = proc.status]
    /\ pc' = "match"
    /\ UNCHANGED <<cmd, cmd_args, proc, result, attempts, started, ref, cli>>

\* Command::output() returns once the process has exited: Ok(Output) with
\* the exit status and the whole of both pipes read into the call's buffers.
WaitWithOutput ==
    /\ pc = "wait"
    /\ proc.state = "exited"
    /\ out_res' = [out_res EXCEPT !.kind = "Ok", !.status = proc.status,
                                  !.stdout = @ \o proc.out, !.stderr = @ \o proc.err]
    /\ pc' = "match"
    /\ UNCHANGED <<cmd, cmd_args, proc, result, attempts, started, ref, cli>>

\* A launch that failed is tried again (a mutant of Return).
ReturnOrRetry ==
    /\ pc = "match"
    /\ LET r == exec_cmd_match(out_res) IN
       IF out_res.kind = "Err"
       THEN pc' = "spawn" /\ result' = NoResult
       ELSE IF r.kind = "Panic"
       THEN pc' = "panicked" /\ result' = NoResult
       ELSE pc' = "returned" /\ result' = r
    /\ UNCHANGED <<cmd, cmd_args, proc, out_res, attempts, started, ref, cli>>

\* exec_cmd's match: it returns Ok or Err, or the expect panics.
Return ==
    /\ pc = "match"
    /\ LET r == exec_cmd_match(out_res) IN
       IF r.kind = "Panic"
       THEN pc' = "panicked" /\ result' = NoResult
       ELSE pc' = "returned" /\ result' = r
    /\ UNCHANGED <<cmd, cmd_args, proc, out_res, attempts, started, ref, cli>>

Next ==
    \/ Call
    \/ SpawnFail
    \/ SpawnOk
    \/ WriteStdout(MaxBytes)
    \/ WriteStderr(MaxBytes)
    \/ Exit
    \/ WaitWithOutput
    \/ Return

Spec == Init /\ [][Next]_vars

\* The same program for the comparison of two calls: smaller outputs, and
\* the caller may remember a call that returned.
Remember ==
    /\ pc = "returned"
    /\ ref' = [set |-> TRUE, cmd |-> cmd, cmd_args |-> cmd_args, launched |-> started = 1,
               out |-> proc.out, err |-> proc.err, status |-> proc.status,
               errno |-> out_res.errno, result |-> result]
    /\ UNCHANGED <<pc, cmd, cmd_args, proc, out_res, result, attempts, started, cli>>

NextRep ==
    \/ Call
    \/ SpawnFail
    \/ SpawnOk
    \/ WriteStdout(RepMaxBytes)
    \/ WriteStderr(RepMaxBytes)
    \/ Exit
    \/ WaitWithOutput
    \/ Return
    \/ Remember

RepSpec == Init /\ [][NextRep]_vars

\* The program under the scheduling the code has: a spawn is answered, a
\* wait on an exited process returns, the match runs. Nothing makes the
\* process exit, and nothing makes the caller call.
LiveSpec ==
    /\ Init
    /\ [][Next]_vars
    /\ WF_vars(SpawnFail \/ SpawnOk)
    /\ WF_vars(WaitWithOutput)
    /\ WF_vars(Return)

\* ------------------------------------------------------------ parse_args

\* The most arguments on the command line.
MaxArgs == 4

\* The words a command line is made of, and those that start with '-'.
Tokens == {"-c", "--color", "-t", "--tickrate", "-r", "sort", "-s", "-n",
           "red", "100", "-x", "--help"}
DashTokens == {"-c", "--color", "-t", "--tickrate", "-r", "-s", "-n", "-x", "--help"}

\* Arg::with_name("color").short("c").long("color").takes_value(true).
ColorFlags == {"-c", "--color"}
\* Arg::with_name("rate").short("t").long("tickrate").takes_value(true).
RateFlags == {"-t", "--tickrate"}
\* Arg::with_name("reverse").short("r").long("reverse").
ReverseFlags == {"-r", "--reverse"}
\* SubCommand::with_name("sort") and its flags size and name.
SortName == "sort"
SizeFlags == {"-s", "--size"}
NameFlags == {"-n", "--name"}
\* The help and version flags clap adds to every App.
HelpFlags == {"-h", "--help", "-V", "--version"}

\* The option a word names: "color", "rate", or "" for none.
opt_of(tok) ==
    IF tok \in ColorFlags THEN "color" ELSE IF tok \in RateFlags THEN "rate" ELSE ""

\* The flag of the sort subcommand a word names, or "" for none.
sub_flag_of(tok) ==
    IF tok \in SizeFlags THEN "size" ELSE IF tok \in NameFlags THEN "name" ELSE ""

\* .default_value(..): the default of an argument, <<>> when it has none.
default_val(name) ==
    IF name = "color" THEN <<"darkgray">>
    ELSE IF name = "rate" THEN <<"250">>
    ELSE <<>>

\* Only color has a default (a mutant of add_defaults).
add_defaults_color_only(a) ==
    [n \in DOMAIN a |->
        IF n = "color" /\ a[n].vals = <<>>
        THEN [a[n] EXCEPT !.present = TRUE, !.vals = default_val(n)]
        ELSE a[n]]

\* Parser::add_defaults: an argument with a default and no value of the
\* user's gets the default as its value, and is in ArgMatches.args.
add_defaults(a) ==
    [n \in DOMAIN a |->
        IF default_val(n) # <<>> /\ a[n].vals = <<>>
        THEN [a[n] EXCEPT !.present = TRUE, !.vals = default_val(n)]
        ELSE a[n]]

\* An occurrence of an argument on the command line.
occurred(m) == [m EXCEPT !.present = TRUE, !.occurs = @ + 1]

\* What validation rejects: an argument used twice.
invalid_args(a) == \E n \in DOMAIN a : a[n].occurs > 1

\* An option occurred and no word was its value. The clap release in use
\* decides whether this is a usage error or the default is the value, and
\* the source does not name the release: both outcomes are modelled.
valueless_opt(a) == \E n \in DOMAIN a : a[n].occurs > 0 /\ a[n].vals = <<>> /\ default_val(n) # <<>>

CliAt(p) == cli.pc = p /\ cli.pos <= Len(cli.argv)
Tok == cli.argv[cli.pos]
Pending == cli.needs_val_of # ""

\* The word names the subcommand, and no option waits for its value.
ParseSubcommand ==
    /\ CliAt("parse") /\ ~Pending /\ Tok = SortName
    /\ cli' = [cli EXCEPT !.pc = "sub", !.sub = TRUE, !.pos = @ + 1]
    /\ UNCHANGED execVars

\* -h, --help, -V, --version: the text is printed and the process exits.
ParseHelp ==
    /\ CliAt("parse") /\ Tok \in HelpFlags
    /\ cli' = [cli EXCEPT !.pc = "exit"]
    /\ UNCHANGED execVars

\* -c, --color, -t, --tickrate: the option occurs and waits for its value.
ParseOpt ==
    /\ CliAt("parse") /\ opt_of(Tok) # ""
    /\ cli' = [cli EXCEPT !.args[opt_of(Tok)] = occurred(@),
                          !.needs_val_of = opt_of(Tok), !.pos = @ + 1]
    /\ UNCHANGED execVars

\* -r, --reverse: the flag occurs.
ParseFlag ==
    /\ CliAt("parse") /\ Tok \in ReverseFlags
    /\ cli' = [cli EXCEPT !.args["reverse"] = occurred(@),
                          !.needs_val_of = "", !.pos = @ + 1]
    /\ UNCHANGED execVars

\* A word that does not start with '-' is the value of the waiting option.
ParseValue ==
    /\ CliAt("parse") /\ Pending /\ Tok \notin DashTokens
    /\ cli' = [cli EXCEPT !.args[cli.needs_val_of].vals = Append(@, Tok),
                          !.needs_val_of = "", !.pos = @ + 1]
    /\ UNCHANGED execVars

\* Any other word is a usage error: the process exits.
ParseUnknown ==
    /\ CliAt("parse")
    /\ \/ Tok \in DashTokens /\ Tok \notin HelpFlags \cup ReverseFlags /\ opt_of(Tok) = ""
       \/ Tok \notin DashTokens /\ ~Pending /\ Tok # SortName
    /\ cli' = [cli EXCEPT !.pc = "exit"]
    /\ UNCHANGED execVars

\* After sort: -s, --size, -n, --name occur.
SubFlag ==
    /\ CliAt("sub") /\ sub_flag_of(Tok) # ""
    /\ cli' = [cli EXCEPT !.sub_args[sub_flag_of(Tok)] = occurred(@), !.pos = @ + 1]
    /\ UNCHANGED execVars

\* After sort: help, or a usage error; the process exits.
SubExit ==
    /\ CliAt("sub") /\ sub_flag_of(Tok) = ""
    /\ cli' = [cli EXCEPT !.pc = "exit"]
    /\ UNCHANGED execVars

\* The command line is read: the defaults are added, and get_matches
\* returns the ArgMatches of a command line that validates.
GetMatches ==
    /\ cli.pc \in {"parse", "sub"} /\ cli.pos > Len(cli.argv)
    /\ ~invalid_args(add_defaults(cli.args)) /\ ~invalid_args(cli.sub_args)
    /\ cli' = [cli EXCEPT !.pc = "done", !.args = add_defaults(@)]
    /\ UNCHANGED execVars

\* The command line is read and does not validate: the process exits.
UsageError ==
    /\ cli.pc \in {"parse", "sub"} /\ cli.pos > Len(cli.argv)
    /\ \/ invalid_args(add_defaults(cli.args))
       \/ invalid_args(cli.sub_args)
       \/ valueless_opt(cli.args)
    /\ cli' = [cli EXCEPT !.pc = "exit"]
    /\ UNCHANGED execVars

\* parse_args is called with any command line of at most MaxArgs words.
ParseInit ==
    /\ ExecInit
    /\ \E k \in 0..MaxArgs : \E av \in [1..k -> Tokens] :
           cli = [NoCli EXCEPT !.pc = "parse", !.argv = av]

ParseNext ==
    \/ ParseSubcommand
    \/ ParseHelp
    \/ ParseOpt
    \/ ParseFlag
    \/ ParseValue
    \/ ParseUnknown
    \/ SubFlag
    \/ SubExit
    \/ GetMatches
    \/ UsageError

ParseSpec == ParseInit /\ [][ParseNext]_vars

\* ------------------------------------------------- what the claims speak of

\* UTF-8 encoding of a scalar value, and of a text.
encode_utf8(c) ==
    IF c < 128 THEN <<c>>
    ELSE IF c < 2048 THEN <<192 + (c \div 64), 128 + (c % 64)>>
    ELSE IF c < 65536 THEN <<224 + (c \div 4096), 128 + ((c \div 64) % 64), 128 + (c % 64)>>
    ELSE <<240 + (c \div 262144), 128 + ((c \div 4096) % 64),
           128 + ((c \div 64) % 64), 128 + (c % 64)>>

RECURSIVE encode_text(_)
encode_text(t) == IF t = <<>> THEN <<>> ELSE encode_utf8(Head(t)) \o encode_text(Tail(t))

\* The scalar values whose encoding uses bytes of Bytes only, and the white
\* space among them.
TextChars == {10, 32, 97, 160}
WhiteSpace == {10, 32, 160}

\* The texts of at most n scalar values.
Texts(n) == UNION {[1..k -> TextChars] : k \in 0..n}

\* The bytes are the encoding of a text.
IsText(bytes) == \E t \in Texts(Len(bytes)) : encode_text(t) = bytes

\* r is t without its maximal trailing run of white space: a prefix of t,
\* followed in t by white space only, and not ending in white space.
IsStripOf(r, t) ==
    \E n \in 0..Len(t) :
        /\ r = SubSeq(t, 1, n)
        /\ \A k \in (n + 1)..Len(t) : t[k] \in WhiteSpace
        /\ n = 0 \/ t[n] \notin WhiteSpace

\* r is the text the bytes encode, stripped at the end.
IsStrippedTextOf(r, bytes) ==
    \E t \in Texts(Len(bytes)) : encode_text(t) = bytes /\ IsStripOf(r, t)

Finished == pc \in {"returned", "panicked"}
Launched == started = 1 /\ proc.state = "exited"
LaunchFailed == attempts = 1 /\ started = 0
ExitedZero == Launched /\ proc.status = [signal |-> 0, code |-> 0]
ExitedNonzero == Launched /\ proc.status # [signal |-> 0, code |-> 0]
SelectedStream == IF ExitedZero THEN proc.out ELSE proc.err

\* C1: a call whose process exited with status 0 and wrote valid UTF-8 to
\* its standard output returns Ok with that text, stripped of its trailing
\* white space and otherwise unchanged, whatever went to standard error.
C1_SuccessReturnsStdout ==
    (Finished /\ ExitedZero /\ IsText(proc.out)) =>
        /\ pc = "returned"
        /\ result.kind = "Ok"
        /\ IsStrippedTextOf(result.text, proc.out)

\* A call returned Ok(" a") for the standard output " a\n".
C1_Witness ==
    /\ pc = "returned"
    /\ ExitedZero
    /\ proc.out = <<32, 97, 10>>
    /\ result = [kind |-> "Ok", text |-> <<32, 97>>]

\* C2: a call whose process exited with a nonzero status and wrote valid
\* UTF-8 to its standard error returns Err with that text, stripped of its
\* trailing white space; never Ok, and never the text of standard output.
C2_FailureReturnsStderr ==
    (Finished /\ ExitedNonzero /\ IsText(proc.err)) =>
        /\ pc = "returned"
        /\ result.kind = "Err"
        /\ IsStrippedTextOf(result.text, proc.err)

\* A call returned Err("a") for exit code 1, standard error "a\n" and
\* standard output " ".
C2_Witness ==
    /\ pc = "returned"
    /\ ExitedNonzero
    /\ proc.status.code = 1
    /\ proc.out = <<32>>
    /\ proc.err = <<97, 10>>
    /\ result = [kind |-> "Err", text |-> <<97>>]

\* The descriptions of the two launch failures.
ENOENT_Text ==
    <<78, 111, 32, 115, 117, 99, 104, 32, 102, 105, 108, 101, 32, 111, 114, 32, 100,
      105, 114, 101, 99, 116, 111, 114, 121, 32, 40, 111, 115, 32, 101, 114, 114,
      111, 114, 32, 50, 41>>
EACCES_Text ==
    <<80, 101, 114, 109, 105, 115, 115, 105, 111, 110, 32, 100, 101, 110, 105, 101,
      100, 32, 40, 111, 115, 32, 101, 114, 114, 111, 114, 32, 49, 51, 41>>

\* C3: a call whose executable cannot be started does not panic: it returns
\* Err with the description of the operating system's error, never Ok.
C3_LaunchFailureReturnsErr ==
    /\ (LaunchFailed /\ pc = "match") => out_res.kind = "Err"
    /\ (LaunchFailed /\ Finished) =>
        /\ pc = "returned"
        /\ result.kind = "Err"
        /\ result.text = IF out_res.errno = 2 THEN ENOENT_Text ELSE EACCES_Text

\* A call returned Err("No such file or directory (os error 2)").
C3_Witness ==
    /\ pc = "returned"
    /\ LaunchFailed
    /\ out_res.errno = 2
    /\ result = [kind |-> "Err", text |-> ENOENT_Text]

\* C4: when the stream the exit status selects is not valid UTF-8 the call
\* panics and returns nothing.
C4_InvalidSelectedStreamPanics ==
    (Finished /\ Launched /\ ~IsText(SelectedStream)) =>
        /\ pc = "panicked"
        /\ result = NoResult

\* A call panicked on the standard output 'a', 0xC2 of a process that
\* exited with status 0.
C4_Witness ==
    /\ pc = "panicked"
    /\ ExitedZero
    /\ proc.out = <<97, 194>>
    /\ result = NoResult

\* C5 as claimed: when either stream of the process is not valid UTF-8, the
\* call panics and returns nothing.
C5_AnyInvalidStreamPanics ==
    (Finished /\ Launched /\ (~IsText(proc.out) \/ ~IsText(proc.err))) =>
        /\ pc = "panicked"
        /\ result = NoResult

\* C5 as amended: a result returned for a launched process carries text
\* decoded from the stream the exit status selects, which was valid UTF-8:
\* the text re-encodes to the first bytes of that stream. The other stream
\* is not looked at.
C5_ResultCarriesDecodedText ==
    (pc = "returned" /\ Launched) =>
        /\ IsText(SelectedStream)
        /\ LET e == encode_text(result.text) IN
           /\ Len(e) <= Len(SelectedStream)
           /\ e = SubSeq(SelectedStream, 1, Len(e))

\* A call returned Ok("a") although the standard error was the lone byte 0xA0.
C5_Witness ==
    /\ pc = "returned"
    /\ ExitedZero
    /\ proc.out = <<97>>
    /\ proc.err = <<160>>
    /\ result = [kind |-> "Ok", text |-> <<97>>]

\* C6: the text of every result returned, on the three paths, does not end
\* in white space, and stripping it again changes nothing.
C6_ResultIsRightTrimmed ==
    (pc = "returned") =>
        /\ result.kind \in {"Ok", "Err"}
        /\ result.text = <<>> \/ ~is_whitespace(result.text[Len(result.text)])
        /\ IsStripOf(result.text, result.text)

\* A call returned Err("a") for the standard error "a", ' ', '\n'.
C6_Witness ==
    /\ pc = "returned"
    /\ ExitedNonzero
    /\ proc.err = <<97, 32, 10>>
    /\ result = [kind |-> "Err", text |-> <<97>>]

C8_SingleAttemptAndWait ==
    /\ attempts \in 0..1
    /\ started \in 0..attempts
    /\ (pc \in {"match", "returned", "panicked"}) => attempts = 1
    /\ (pc = "wait") => started = 1 /\ proc.state \in {"running", "exited"}
    /\ (proc.state # "none") => started = 1
    /\ (pc \in {"match", "returned", "panicked"} /\ started = 1) => proc.state = "exited"
    /\ (pc \in {"match", "returned", "panicked"} /\ started = 0) => proc.state = "none"

\* A call ended in a panic after its one process had exited.
C8_Witness ==
    /\ pc = "panicked"
    /\ attempts = 1
    /\ started = 1
    /\ proc.state = "exited"

\* The call now finished and the remembered one had the same arguments and
\* the same outcome of the process.
SameAsRemembered ==
    /\ ref.set
    /\ ref.cmd = cmd
    /\ ref.cmd_args = cmd_args
    /\ ref.launched = (started = 1)
    /\ ref.launched => (ref.out = proc.out /\ ref.err = proc.err /\ ref.status = proc.status)
    /\ ~ref.launched => ref.errno = out_res.errno

\* C9: two calls with the same arguments whose processes had the same
\* outcome return the same result, whatever was called in between.
C9_SameOutcomeSameResult ==
    (Finished /\ SameAsRemembered) => (pc = "returned" /\ result = ref.result)

\* A second call returned Ok("a") as the remembered one did.
C9_Witness ==
    /\ pc = "returned"
    /\ SameAsRemembered
    /\ ref.out = <<97>>
    /\ ref.status = [signal |-> 0, code |-> 0]
    /\ ref.result = [kind |-> "Ok", text |-> <<97>>]
    /\ result = ref.result
    /\ out_res.stdout = <<97>>

\* ArgMatches::value_of: the first value of an argument, "" for None.
ValueOf(name) ==
    IF cli.args[name].present /\ cli.args[name].vals # <<>>
    THEN cli.args[name].vals[1] ELSE ""

\* The flags of an option do not occur on the command line.
NotGiven(flags) == \A i \in 1..Len(cli.argv) : cli.argv[i] \notin flags

\* Every value the command line supplies to an option is the option's value.
SuppliedIs(flags, name) ==
    \A i \in 1..(Len(cli.argv) - 1) :
        (cli.argv[i] \in flags /\ cli.argv[i + 1] \notin DashTokens)
            => ValueOf(name) = cli.argv[i + 1]

\* C10: the matches of a valid command line have color "darkgray" and rate
\* "250" when the option is not given, the value supplied when it is, and
\* are never empty.
C10_DefaultsAndSuppliedValues ==
    (cli.pc = "done") =>
        /\ NotGiven(ColorFlags) => ValueOf("color") = "darkgray"
        /\ NotGiven(RateFlags) => ValueOf("rate") = "250"
        /\ SuppliedIs(ColorFlags, "color")
        /\ SuppliedIs(RateFlags, "rate")
        /\ Cardinality({n \in DOMAIN cli.args : cli.args[n].present}) # 0

\* kmon -c red: color is "red" and the rate is the default.
C10_Witness ==
    /\ cli.pc = "done"
    /\ cli.argv = <<"-c", "red">>
    /\ ValueOf("color") = "red"
    /\ ValueOf("rate") = "250"

====
